---- MODULE Spec2Model ----
(***************************************************************************)
(* The batch execution engine of ResumeRank (createBatch,                  *)
(* processSingleResume, controlBatch, watchdog) over its Firestore state:  *)
(* one batch document and its item ("resume") documents.                   *)
(*                                                                         *)
(* Store semantics used by the code and modelled here:                     *)
(*  - updateDoc is an unconditional write of the named fields; increment   *)
(*    is an atomic server-side add;                                        *)
(*  - runTransaction re-runs its function when a document it read with     *)
(*    transaction.get changed before commit (txDirty / ctl.dirty); a       *)
(*    document it only updates is written with no check of its content;    *)
(*  - getDocs inside a transaction function is an ordinary read.           *)
(* One step of the model is one store operation (one await) of the code.   *)
(* A worker slot w runs one invocation of processSingleResume at a time:   *)
(* the invocation started by createBatch or by a resume, then the one it   *)
(* schedules when it ends, and so on. Every invocation draws a fresh       *)
(* workerId (uuidv4): an id that no item and no other running invocation   *)
(* holds.                                                                  *)
(* The watchdog queries the root collection 'resumes', while createBatch    *)
(* stores the items under batches/{batchId}/resumes and nothing writes to  *)
(* the root collection: as written, its query returns no document          *)
(* (RootResumes). SpecLease runs the sweep over the batch's items instead, *)
(* the layout that the comment at the query assumes. Nothing in the        *)
(* repository schedules the watchdog; SpecControl is the engine without it.*)
(* The objects that createBatch uploads are the variable objects. The      *)
(* analysis reports of src/src/app/actions.ts are a separate part of the   *)
(* store: report and td model deleteAnalysisReport on one report.          *)
(***************************************************************************)
EXTENDS Integers, Sequences, FiniteSets, TLC

\* ------------------------------------------------------------- bounds
MaxFiles == 2
MaxHashes == 2
MaxWorkers == 2
MaxTicks == 1
MaxCalls == 2
MaxNames == 2
MaxTeardowns == 3

\* -------------------------------------------------- program constants
RUN_TIMEOUT_SEC == 90
MAX_RETRIES == 3
Null == -1

TickSec == RUN_TIMEOUT_SEC + 1
\* The retry helper: the loop's bound, the last index that waits, the base delay.
RetryAttempts == 5
RetryLastWait == 4
RetryBaseMs == 2000

Workers == 1..MaxWorkers
WorkerIds == 1..(MaxWorkers + MaxFiles)
Hashes == 1..MaxHashes
Users == {"owner", "other"}
ControlActions == {"pause", "resume", "cancel"}
\* What the analyzer call can throw: an error whose message names a 429, one
\* whose message names 5xx, or any other error (a schema-validation failure,
\* for one).
AnalyzerErrors == {"transient429", "transient5xx", "permanent"}
Terminal == {"complete", "failed", "cancelled"}

RECURSIVE SeqsUpTo(_)
SeqsUpTo(n) ==
  IF n = 0 THEN {<<>>}
  ELSE LET shorter == SeqsUpTo(n - 1)
       IN shorter \cup {Append(s, h) : s \in {t \in shorter : Len(t) = n - 1}, h \in Hashes}

\* The input lists of createBatch: files by content hash, up to renaming of the
\* contents (a content seen for the first time gets the next number).
FileLists ==
  {s \in SeqsUpTo(MaxFiles) :
     \A i \in 1..Len(s) : \A h \in 1..(s[i] - 1) : \E j \in 1..(i - 1) : s[j] = h}

VARIABLES
  batch,          \* the batch document
  items,          \* the item documents of the batch, by document id order
  now,            \* the clock, in seconds
  pc,             \* per worker slot: the position of its invocation
  workerId,       \* per worker slot: its invocation's workerId
  claimedResume,  \* per worker slot: its invocation's claimedResume (Null: none)
  txDirty,        \* per worker slot: the batch changed since its transaction.get
  errKind,        \* per worker slot: the analyzer error it is handling
  ctl,            \* the controlBatch call in progress
  wd,             \* the watchdog sweep in progress
  objects,        \* the objects stored under resumes_v2/
  report,         \* an analysis report: its document, details and stored files
  td,             \* the deleteAnalysisReport call in progress
  rt              \* a call of the retry helper

vars == <<batch, items, now, pc, workerId, claimedResume, txDirty, errKind, ctl, wd,
          objects, report, td, rt>>

\* ------------------------------------------------------------ helpers

NoBatch ==
  [status |-> "absent", userId |-> "none", total |-> 0, completed |-> 0,
   failed |-> 0, cancelledCount |-> 0, skippedDuplicates |-> 0]

\* A controlBatch call: its position, the item ids its sweep query returned,
\* whether the batch changed since its transaction.get, and the calls made so far.
CtlIdle == [pc |-> "idle", snap |-> {}, dirty |-> FALSE, calls |-> 0]

WdIdle == [pc |-> "idle", snap |-> <<>>]

\* A sweep whose loop is over, or had nothing to do: the function is about to return.
WdDone == [pc |-> "done", snap |-> <<>>]

\* No analysis report: no document, no detail document, no stored file.
NoReport == [doc |-> FALSE, details |-> {}, files |-> {}]

\* No deleteAnalysisReport call in progress: its position, the documents or
\* objects its last query or listing returned, the calls made so far, and how
\* the last call ended ("ok": it returned; "error": a deleteObject of its own
\* found no object; "aborted": a request of it failed), and where the last
\* aborted call stopped.
TdIdle == [pc |-> "idle", snap |-> {}, calls |-> 0, result |-> "none", stopped |-> "none"]

\* No call of retry in progress: its position, the loop index i, the number of
\* calls of fn made, the errors caught so far, the delays waited so far, and
\* what the call threw in the end.
RtIdle == [pc |-> "idle", i |-> 0, calls |-> 0, caught |-> <<>>, waits |-> <<>>,
           thrown |-> "none"]

\* What a call of fn does: it returns, or throws an error whose message
\* names 429, names 503, or names neither.
FnOutcomes == {"ok", "err429", "err503", "other"}

\* The file names of a report's resumes: the ids of its detail documents and
\* the names of its objects under resumehire/{userId}/{reportId}/.
Names == 1..MaxNames

\* A stored report: its document, with any detail documents and stored files.
StoredReports ==
  {[doc |-> TRUE, details |-> d, files |-> f] : d \in SUBSET Names, f \in SUBSET Names}

\* Indices of the first occurrence of each content hash (lines 69-75).
FirstOccurrences(files) ==
  {i \in 1..Len(files) : \A j \in 1..(i - 1) : files[j] # files[i]}

RECURSIVE SetToSortedSeq(_)
SetToSortedSeq(S) ==
  IF S = {} THEN <<>>
  ELSE LET m == CHOOSE x \in S : \A y \in S : x <= y
       IN <<m>> \o SetToSortedSeq(S \ {m})

\* The field claims is no field of the document: it records how many times the
\* item has gone from pending to running.
NewResume(hash, t) ==
  [fileHash |-> hash, status |-> "pending", startTime |-> Null, workerId |-> Null,
   retryCount |-> 0, maxRetries |-> MAX_RETRIES, result |-> "null", error |-> "null",
   lastUpdatedAt |-> t, claims |-> 0]

TotalProcessed(b) == b.completed + b.failed + b.cancelledCount + b.skippedDuplicates

\* A call of processSingleResume takes a free worker slot and a fresh workerId.
FreeSlots == {w \in Workers : pc[w] = "idle"}
NextSlot == CHOOSE w \in FreeSlots : \A v \in FreeSlots : w <= v
FreshId(w) ==
  LET used == {items[i].workerId : i \in DOMAIN items}
                \cup {workerId[v] : v \in Workers \ {w}}
      free == WorkerIds \ used
  IN CHOOSE x \in free : \A y \in free : x <= y

\* A batch document read outside the transaction: no write invalidates the read.
TouchNothing(d) == d

\* A write of the batch document invalidates the transactions that read it.
Touch(d) == [w \in Workers |-> IF pc[w] \in {"txQuery", "txCommit"} THEN TRUE ELSE d[w]]
TouchCtl(c) == IF c.pc = "commit" THEN [c EXCEPT !.dirty = TRUE] ELSE c

\* query(where status == pending, orderBy lastUpdatedAt, limit 1); ties by document id.
PendingIds == {i \in DOMAIN items : items[i].status = "pending"}
OldestPending ==
  CHOOSE i \in PendingIds : \A j \in PendingIds :
    \/ items[i].lastUpdatedAt < items[j].lastUpdatedAt
    \/ items[i].lastUpdatedAt = items[j].lastUpdatedAt /\ i <= j

\* The objects resumes_v2/{batchId}/{resumeId}_{filename} that a call of
\* createBatch uploads for its first n accepted files (lines 77-80); batchId is
\* "batch" for the batch of the model, "aborted" for that of a call that threw.
Uploaded(batchId, n) == {[batchId |-> batchId, resume |-> k] : k \in 1..n}

\* ---------------------------------------------------------------- Init

Init ==
  /\ batch = NoBatch
  /\ items = <<>>
  /\ now = 0
  /\ pc = [w \in Workers |-> "idle"]
  /\ workerId = [w \in Workers |-> Null]
  /\ claimedResume = [w \in Workers |-> Null]
  /\ txDirty = [w \in Workers |-> FALSE]
  /\ errKind = [w \in Workers |-> "none"]
  /\ ctl = CtlIdle
  /\ wd = WdIdle
  /\ objects = {}
  /\ report = NoReport
  /\ td = TdIdle
  /\ rt = RtIdle

\* -------------------------------------------------------- createBatch

CreateBatch(files) ==
  /\ batch.status = "absent"
  /\ LET kept == SetToSortedSeq(FirstOccurrences(files))
     IN /\ batch' = [status |-> "running", userId |-> "owner", total |-> Len(files),
                     completed |-> 0, failed |-> 0, cancelledCount |-> 0,
                     skippedDuplicates |-> Len(files) - Len(kept)]
        /\ items' = [k \in 1..Len(kept) |-> NewResume(files[kept[k]], now)]
        /\ objects' = objects \cup Uploaded("batch", Len(kept))
  /\ pc' = [pc EXCEPT ![NextSlot] = "txRead"]
  /\ workerId' = [workerId EXCEPT ![NextSlot] = FreshId(NextSlot)]
  /\ UNCHANGED <<now, claimedResume, txDirty, errKind, ctl, wd, report, td, rt>>

\* A call of createBatch in which a step throws after n uploads: the hashing
\* or the upload of the next accepted file, or, all files uploaded, the commit.
\* The exception leaves the function: nothing is committed, line 109 is not
\* reached. One such call is followed.
CreateBatchFails(files, n) ==
  /\ \A o \in objects : o.batchId # "aborted"
  /\ n <= Cardinality(FirstOccurrences(files))
  /\ objects' = objects \cup Uploaded("aborted", n)
  /\ UNCHANGED <<batch, items, now, pc, workerId, claimedResume, txDirty, errKind, ctl, wd,
                 report, td, rt>>

\* ------------------------------------------------ processSingleResume

\* Where an invocation goes when its transaction function returned and committed.
AfterTx(c) == IF c # Null THEN "analyze" ELSE "finalRead"

TxRead(w) ==
  /\ pc[w] = "txRead"
  /\ txDirty' = [txDirty EXCEPT ![w] = FALSE]
  /\ pc' = [pc EXCEPT ![w] = IF batch.status # "running" THEN AfterTx(claimedResume[w])
                             ELSE "txQuery"]
  /\ UNCHANGED <<batch, items, now, workerId, claimedResume, errKind, ctl, wd, objects, report, td, rt>>

TxQuery(w) ==
  /\ pc[w] = "txQuery"
  /\ IF PendingIds = {}
     THEN \* the function returns; the commit verifies the batch it read
          /\ pc' = [pc EXCEPT ![w] = IF txDirty[w] THEN "txRead"
                                     ELSE AfterTx(claimedResume[w])]
          /\ txDirty' = [txDirty EXCEPT ![w] = FALSE]
          /\ UNCHANGED claimedResume
     ELSE /\ claimedResume' = [claimedResume EXCEPT ![w] = OldestPending]
          /\ pc' = [pc EXCEPT ![w] = "txCommit"]
          /\ UNCHANGED txDirty
  /\ UNCHANGED <<batch, items, now, workerId, errKind, ctl, wd, objects, report, td, rt>>

ClaimWrite(r, id, t) ==
  [r EXCEPT !.status = "running", !.workerId = id, !.startTime = t, !.lastUpdatedAt = t,
            !.claims = IF r.status = "pending" THEN @ + 1 ELSE @]

TxCommit(w) ==
  /\ pc[w] = "txCommit"
  /\ IF txDirty[w]
     THEN /\ pc' = [pc EXCEPT ![w] = "txRead"]
          /\ UNCHANGED items
     ELSE /\ items' = [items EXCEPT ![claimedResume[w]] = ClaimWrite(@, workerId[w], now)]
          /\ pc' = [pc EXCEPT ![w] = "analyze"]
  /\ txDirty' = [txDirty EXCEPT ![w] = FALSE]
  /\ UNCHANGED <<batch, now, workerId, claimedResume, errKind, ctl, wd, objects, report, td, rt>>

\* A write of complete that leaves the error field as it is.
CompleteWriteKeepsError(r, t) ==
  [r EXCEPT !.status = "complete", !.result = "json", !.lastUpdatedAt = t]

CompleteWrite(r, t) ==
  [r EXCEPT !.status = "complete", !.result = "json", !.lastUpdatedAt = t, !.error = "null"]

AnalyzeOk(w) ==
  /\ pc[w] = "analyze"
  /\ items' = [items EXCEPT ![claimedResume[w]] = CompleteWrite(@, now)]
  /\ pc' = [pc EXCEPT ![w] = "okBatch"]
  /\ UNCHANGED <<batch, now, workerId, claimedResume, txDirty, errKind, ctl, wd, objects, report, td, rt>>

OkBatch(w) ==
  /\ pc[w] = "okBatch"
  /\ batch' = [batch EXCEPT !.completed = @ + 1]
  /\ txDirty' = Touch(txDirty)
  /\ ctl' = TouchCtl(ctl)
  /\ pc' = [pc EXCEPT ![w] = "finalRead"]
  /\ UNCHANGED <<items, now, workerId, claimedResume, errKind, wd, objects, report, td, rt>>

\* The catch block's read of the item and its choice of branch (lines 184-192).
CanRetry(r) == r.retryCount < MAX_RETRIES

AnalyzeFail(w, e) ==
  /\ pc[w] = "analyze"
  /\ errKind' = [errKind EXCEPT ![w] = e]
  /\ pc' = [pc EXCEPT ![w] = IF CanRetry(items[claimedResume[w]]) THEN "errRequeue"
                             ELSE "errFail"]
  /\ UNCHANGED <<batch, items, now, workerId, claimedResume, txDirty, ctl, wd, objects, report, td, rt>>

ErrorCode(e) ==
  CASE e = "transient5xx" -> "transient.server_5xx"
    [] e = "transient429" -> "transient.rate_limited_429"
    [] OTHER -> "transient_error"

RequeueWrite(r, code, t) ==
  [r EXCEPT !.status = "pending", !.retryCount = @ + 1, !.workerId = Null,
            !.startTime = Null, !.lastUpdatedAt = t, !.error = code]

ErrRequeue(w) ==
  /\ pc[w] = "errRequeue"
  /\ items' = [items EXCEPT ![claimedResume[w]] = RequeueWrite(@, ErrorCode(errKind[w]), now)]
  /\ errKind' = [errKind EXCEPT ![w] = "none"]
  /\ pc' = [pc EXCEPT ![w] = "finalRead"]
  /\ UNCHANGED <<batch, now, workerId, claimedResume, txDirty, ctl, wd, objects, report, td, rt>>

FailWrite(r, t) ==
  [r EXCEPT !.status = "failed", !.workerId = Null, !.startTime = Null,
            !.lastUpdatedAt = t, !.error = "permanent_failure"]

ErrFail(w) ==
  /\ pc[w] = "errFail"
  /\ items' = [items EXCEPT ![claimedResume[w]] = FailWrite(@, now)]
  /\ errKind' = [errKind EXCEPT ![w] = "none"]
  /\ pc' = [pc EXCEPT ![w] = "errBatch"]
  /\ UNCHANGED <<batch, now, workerId, claimedResume, txDirty, ctl, wd, objects, report, td, rt>>

ErrBatch(w) ==
  /\ pc[w] = "errBatch"
  /\ batch' = [batch EXCEPT !.failed = @ + 1]
  /\ txDirty' = Touch(txDirty)
  /\ ctl' = TouchCtl(ctl)
  /\ pc' = [pc EXCEPT ![w] = "finalRead"]
  /\ UNCHANGED <<items, now, workerId, claimedResume, errKind, wd, objects, report, td, rt>>

\* A completion test that asks for more than total processed items.
ShouldCompleteStrict(b) == TotalProcessed(b) > b.total

\* The completion check's branch on the batch it read (lines 228-230).
ShouldComplete(b) == TotalProcessed(b) >= b.total

\* A final check that does not look at the batch's status.
FinalReadAnyStatus(w) ==
  /\ pc[w] = "finalRead"
  /\ claimedResume' = [claimedResume EXCEPT ![w] = Null]
  /\ IF ShouldComplete(batch)
     THEN /\ pc' = [pc EXCEPT ![w] = "finalWrite"]
          /\ UNCHANGED workerId
     ELSE /\ pc' = [pc EXCEPT ![w] = "txRead"]
          /\ workerId' = [workerId EXCEPT ![w] = FreshId(w)]
  /\ UNCHANGED <<batch, items, now, txDirty, errKind, ctl, wd, objects, report, td, rt>>

\* Lines 223-236: the final read of the batch and the branch on it.
FinalRead(w) ==
  /\ pc[w] = "finalRead"
  /\ claimedResume' = [claimedResume EXCEPT ![w] = Null]
  /\ IF batch.status = "running"
     THEN IF ShouldComplete(batch)
          THEN /\ pc' = [pc EXCEPT ![w] = "finalWrite"]
               /\ UNCHANGED workerId
          ELSE \* line 235: the next invocation, in this slot
               /\ pc' = [pc EXCEPT ![w] = "txRead"]
               /\ workerId' = [workerId EXCEPT ![w] = FreshId(w)]
     ELSE /\ pc' = [pc EXCEPT ![w] = "idle"]
          /\ workerId' = [workerId EXCEPT ![w] = Null]
  /\ UNCHANGED <<batch, items, now, txDirty, errKind, ctl, wd, objects, report, td, rt>>

FinalWrite(w) ==
  /\ pc[w] = "finalWrite"
  /\ batch' = [batch EXCEPT !.status = "complete"]
  /\ txDirty' = Touch(txDirty)
  /\ ctl' = TouchCtl(ctl)
  /\ pc' = [pc EXCEPT ![w] = "idle"]
  /\ workerId' = [workerId EXCEPT ![w] = Null]
  /\ UNCHANGED <<items, now, claimedResume, errKind, wd, objects, report, td, rt>>

\* ------------------------------------------------------- controlBatch
\* The transaction of controlBatch reads and writes the batch document, so its
\* commit succeeds only if the batch still is as it was read: the call takes
\* effect as one step at its commit. The cancel branch also runs a query, which
\* is no part of the transaction: CtlCancelQuery is the transaction function's
\* run (read, switch, query), CtlCancelCommit its commit or, when the batch
\* changed in between, the start of its re-run.

\* A switch that assigns the new status whatever the current one is.
NewStatusUnguarded(action, currentStatus) ==
  CASE action = "pause" -> "paused"
    [] action = "resume" -> "running"
    [] action = "cancel" -> "cancelled"

\* The switch on (action, currentStatus): the new status, or "none" for the
\* branches that return without a write (lines 249-264).
NewStatus(action, currentStatus) ==
  CASE action = "pause" -> IF currentStatus = "running" THEN "paused" ELSE "none"
    [] action = "resume" -> IF currentStatus = "paused" THEN "running" ELSE "none"
    [] action = "cancel" -> IF currentStatus \in {"running", "paused"} THEN "cancelled"
                            ELSE "none"

\* A permission test that only asks for the batch to exist.
PermittedAnyUser(u) == batch.status # "absent"

\* Line 244: the batch exists and is the caller's.
Permitted(u) == batch.status # "absent" /\ batch.userId = u

\* A resume that changes the status and starts no invocation.
CtlSpawnNone(a) == UNCHANGED <<pc, workerId>>

\* Lines 281-284: a resume call that did not throw starts an invocation.
CtlSpawn(a) ==
  IF a = "resume"
  THEN /\ FreeSlots # {}
       /\ pc' = [pc EXCEPT ![NextSlot] = "txRead"]
       /\ workerId' = [workerId EXCEPT ![NextSlot] = FreshId(NextSlot)]
  ELSE UNCHANGED <<pc, workerId>>

\* Lines 244-247: the batch does not exist or is another user's: the call throws.
CtlDenied(u, a) ==
  /\ ctl.pc = "idle" /\ ctl.calls < MaxCalls
  /\ ~Permitted(u)
  /\ ctl' = [CtlIdle EXCEPT !.calls = ctl.calls + 1]
  /\ UNCHANGED <<batch, items, now, pc, workerId, claimedResume, txDirty, errKind, wd, objects, report, td, rt>>

\* An (action, status) pair outside the switch's transitions: no write.
CtlNoop(u, a) ==
  /\ ctl.pc = "idle" /\ ctl.calls < MaxCalls
  /\ Permitted(u)
  /\ NewStatus(a, batch.status) = "none"
  /\ ctl' = [CtlIdle EXCEPT !.calls = ctl.calls + 1]
  /\ CtlSpawn(a)
  /\ UNCHANGED <<batch, items, now, claimedResume, txDirty, errKind, wd, objects, report, td, rt>>

\* pause and resume: line 266 alone.
CtlFlip(u, a) ==
  /\ ctl.pc = "idle" /\ ctl.calls < MaxCalls
  /\ a \in {"pause", "resume"}
  /\ Permitted(u)
  /\ NewStatus(a, batch.status) # "none"
  /\ batch' = [batch EXCEPT !.status = NewStatus(a, batch.status)]
  /\ txDirty' = Touch(txDirty)
  /\ ctl' = [CtlIdle EXCEPT !.calls = ctl.calls + 1]
  /\ CtlSpawn(a)
  /\ UNCHANGED <<items, now, claimedResume, errKind, wd, objects, report, td, rt>>

\* query(where status in [pending, paused]) of the cancel branch (lines 269-271).
CancelQuery == {i \in DOMAIN items : items[i].status \in {"pending", "paused"}}

CtlCancelQuery(u) ==
  /\ ctl.pc \in {"idle", "retry"}
  /\ ctl.pc = "idle" => (ctl.calls < MaxCalls /\ Permitted(u))
  /\ ctl.pc = "retry" => u = batch.userId
  /\ LET n == IF ctl.pc = "idle" THEN ctl.calls + 1 ELSE ctl.calls
     IN IF NewStatus("cancel", batch.status) = "none"
        THEN /\ ctl.pc = "retry"
             /\ ctl' = [CtlIdle EXCEPT !.calls = n]
        ELSE ctl' = [CtlIdle EXCEPT !.pc = "commit", !.snap = CancelQuery, !.calls = n]
  /\ UNCHANGED <<batch, items, now, pc, workerId, claimedResume, txDirty, errKind, wd, objects, report, td, rt>>

CancelWrite(r) == [r EXCEPT !.status = "cancelled"]

CtlCancelCommit ==
  /\ ctl.pc = "commit"
  /\ IF ctl.dirty
     THEN /\ ctl' = [CtlIdle EXCEPT !.pc = "retry", !.calls = ctl.calls]
          /\ UNCHANGED <<batch, items, txDirty>>
     ELSE /\ batch' = [batch EXCEPT !.status = NewStatus("cancel", batch.status),
                                    !.cancelledCount = @ + Cardinality(ctl.snap)]
          /\ items' = [i \in DOMAIN items |->
                         IF i \in ctl.snap THEN CancelWrite(items[i]) ELSE items[i]]
          /\ txDirty' = Touch(txDirty)
          /\ ctl' = [CtlIdle EXCEPT !.calls = ctl.calls]
  /\ UNCHANGED <<now, pc, workerId, claimedResume, errKind, wd, objects, report, td, rt>>

\* ----------------------------------------------------------- watchdog

\* A query with no threshold on startTime: every running item.
ExpiredOrNot(r) == r.status = "running"

\* query(where status == running, where startTime < threshold) (lines 289-301).
Expired(r) == r.status = "running" /\ r.startTime < now - RUN_TIMEOUT_SEC

RECURSIVE SnapshotSeq(_)
SnapshotSeq(S) ==
  IF S = {} THEN <<>>
  ELSE LET m == CHOOSE i \in S : \A j \in S :
                  \/ items[i].startTime < items[j].startTime
                  \/ items[i].startTime = items[j].startTime /\ i <= j
       IN <<[id |-> m, retryCount |-> items[m].retryCount]>> \o SnapshotSeq(S \ {m})

\* The item documents in the root collection 'resumes': none.
RootResumes == {}

\* The item documents in the collection coll: the root collection 'resumes',
\* or the batch's own collection batches/{batchId}/resumes.
Resumes(coll) == IF coll = "batchResumes" THEN DOMAIN items ELSE RootResumes

\* The query of a sweep over the collection coll.
WdQuery(coll) ==
  /\ wd.pc = "idle"
  /\ batch.status # "absent"
  /\ LET found == SnapshotSeq({i \in Resumes(coll) : Expired(items[i])})
     IN wd' = IF found = <<>> THEN WdDone ELSE [pc |-> "loop", snap |-> found]
  /\ UNCHANGED <<batch, items, now, pc, workerId, claimedResume, txDirty, errKind, ctl, objects, report, td, rt>>

WdRequeueWrite(r, t) ==
  [r EXCEPT !.status = "pending", !.retryCount = @ + 1, !.workerId = Null,
            !.startTime = Null, !.lastUpdatedAt = t, !.error = "timeout"]

WdFailWrite(r, t) ==
  [r EXCEPT !.status = "failed", !.lastUpdatedAt = t, !.error = "timeout_final"]

WdNext(rest) == IF rest = <<>> THEN WdDone ELSE [pc |-> "loop", snap |-> rest]

WdUpdate ==
  /\ wd.pc = "loop"
  /\ LET resume == Head(wd.snap)
     IN IF resume.retryCount < MAX_RETRIES
        THEN /\ items' = [items EXCEPT ![resume.id] = WdRequeueWrite(@, now)]
             /\ wd' = WdNext(Tail(wd.snap))
        ELSE /\ items' = [items EXCEPT ![resume.id] = WdFailWrite(@, now)]
             /\ wd' = [wd EXCEPT !.pc = "failBatch"]
  /\ UNCHANGED <<batch, now, pc, workerId, claimedResume, txDirty, errKind, ctl, objects, report, td, rt>>

WdFailBatch ==
  /\ wd.pc = "failBatch"
  /\ batch' = [batch EXCEPT !.failed = @ + 1]
  /\ txDirty' = Touch(txDirty)
  /\ ctl' = TouchCtl(ctl)
  /\ wd' = WdNext(Tail(wd.snap))
  /\ UNCHANGED <<items, now, pc, workerId, claimedResume, errKind, objects, report, td, rt>>

WdReturn ==
  /\ wd.pc = "done"
  /\ wd' = WdIdle
  /\ UNCHANGED <<batch, items, now, pc, workerId, claimedResume, txDirty, errKind, ctl, objects, report, td, rt>>

\* ----------------------------------------------- deleteAnalysisReport
\* src/src/app/actions.ts, lines 854-886. One call at a time.

engineVars ==
  <<batch, items, now, pc, workerId, claimedResume, txDirty, errKind, ctl, wd, objects>>

TdEnd(r) == [TdIdle EXCEPT !.calls = td.calls, !.result = r, !.stopped = td.stopped]

\* A call that first asks for the report document and throws if there is none.
TdQueryDetailsStrict ==
  /\ td.pc = "idle" /\ td.calls < MaxTeardowns
  /\ td' = IF report.doc
           THEN [td EXCEPT !.pc = "commit", !.snap = report.details, !.calls = @ + 1,
                           !.result = "none"]
           ELSE [td EXCEPT !.calls = @ + 1, !.result = "error"]
  /\ UNCHANGED <<engineVars, report, rt>>

\* Lines 865-866: getDocs of the subcollection 'details'.
TdQueryDetails ==
  /\ td.pc = "idle" /\ td.calls < MaxTeardowns
  /\ td' = [td EXCEPT !.pc = "commit", !.snap = report.details, !.calls = @ + 1,
                      !.result = "none"]
  /\ UNCHANGED <<engineVars, report, rt>>

\* Lines 867-871: one write batch deletes the documents of the snapshot.
TdCommitDetails ==
  /\ td.pc = "commit"
  /\ report' = [report EXCEPT !.details = @ \ td.snap]
  /\ td' = [td EXCEPT !.pc = "list", !.snap = {}]
  /\ UNCHANGED <<engineVars, rt>>

\* Lines 874-875: listAll of the report's folder.
TdList ==
  /\ td.pc = "list"
  /\ td' = [td EXCEPT !.pc = IF report.files = {} THEN "doc" ELSE "files",
                      !.snap = report.files]
  /\ UNCHANGED <<engineVars, report, rt>>

\* Lines 876-877: one of the deleteObject calls, in any order; deleteObject
\* rejects when the object does not exist, and the call throws.
TdDeleteObject(f) ==
  /\ td.pc = "files"
  /\ f \in td.snap
  /\ IF f \in report.files
     THEN /\ report' = [report EXCEPT !.files = @ \ {f}]
          /\ td' = [td EXCEPT !.snap = @ \ {f},
                              !.pc = IF td.snap = {f} THEN "doc" ELSE "files"]
     ELSE /\ td' = TdEnd("error")
          /\ UNCHANGED report
  /\ UNCHANGED <<engineVars, rt>>

\* Line 880: deleteDoc of the report document; the call returns.
TdDeleteDoc ==
  /\ td.pc = "doc"
  /\ report' = [report EXCEPT !.doc = FALSE]
  /\ td' = TdEnd("ok")
  /\ UNCHANGED <<engineVars, rt>>

\* The request the call is waiting for fails (lines 882-885): the call throws
\* with what it has deleted so far deleted.
TdThrows ==
  /\ td.pc \in {"commit", "list", "files", "doc"}
  /\ td' = [TdEnd("aborted") EXCEPT !.stopped = td.pc]
  /\ UNCHANGED <<engineVars, report, rt>>

\* -------------------------------------------------------------- retry
\* src/src/app/actions.ts, lines 199-218 (the same function is in
\* src/unnamed/part_006, lines 52-71).

\* A delay that grows by the base delay at each attempt.
RetryDelayLinear(i) == RetryBaseMs * (i + 1)

\* Line 208.
RetryDelay(i) == RetryBaseMs * 2^i

\* Line 206.
IsTransient(e) == e \in {"err429", "err503"}

\* retry(fn) is called.
RetryStart ==
  /\ rt.pc = "idle"
  /\ rt' = [rt EXCEPT !.pc = "loop"]
  /\ UNCHANGED <<engineVars, report, td>>

\* Lines 201-213: the loop test, the call of fn and what follows it up to the
\* wait.
RetryAttempt(o) ==
  /\ rt.pc = "loop"
  /\ rt.i < RetryAttempts
  /\ IF o = "ok"
     THEN rt' = [rt EXCEPT !.calls = @ + 1, !.pc = "returned"]
     ELSE IF IsTransient(o)
          THEN IF rt.i < RetryLastWait
               THEN rt' = [rt EXCEPT !.calls = @ + 1, !.caught = Append(@, o),
                                     !.pc = "wait"]
               ELSE rt' = [rt EXCEPT !.calls = @ + 1, !.caught = Append(@, o),
                                     !.i = @ + 1]
          ELSE rt' = [rt EXCEPT !.calls = @ + 1, !.caught = Append(@, o),
                                !.pc = "threw", !.thrown = o]
  /\ UNCHANGED <<engineVars, report, td>>

\* Lines 208-210: the timer fires; the next iteration.
RetryWait ==
  /\ rt.pc = "wait"
  /\ rt' = [rt EXCEPT !.waits = Append(@, RetryDelay(rt.i)), !.i = @ + 1, !.pc = "loop"]
  /\ UNCHANGED <<engineVars, report, td>>

\* Line 217: the loop is over.
RetryThrowLast ==
  /\ rt.pc = "loop"
  /\ rt.i >= RetryAttempts
  /\ rt' = [rt EXCEPT !.pc = "threw", !.thrown = rt.caught[Len(rt.caught)]]
  /\ UNCHANGED <<engineVars, report, td>>

\* -------------------------------------------------------------- clock

Tick ==
  /\ now < MaxTicks * TickSec
  /\ now' = now + TickSec
  /\ UNCHANGED <<batch, items, pc, workerId, claimedResume, txDirty, errKind, ctl, wd, objects, report, td, rt>>

\* ------------------------------------------------------ specification

\* An analyzer that can throw any kind of error on any file.
AnyFileFails == [h \in Hashes |-> AnalyzerErrors]

\* An analyzer that can throw only on the file whose content hash is 1, and
\* only errors of one kind.
FirstFileFails == [h \in Hashes |-> IF h = 1 THEN {"permanent"} ELSE {}]

\* The analyzer call of slot w throws one of the errors errs[h], h the content
\* hash of the claimed item's file.
AnalyzeThrows(w, errs) ==
  /\ pc[w] = "analyze"
  /\ \E e \in errs[items[claimedResume[w]].fileHash] : AnalyzeFail(w, e)

\* The analyzer call of slot w never returns: the invocation stays at line 164.
AnalyzeHangs(w) ==
  /\ pc[w] = "analyze"
  /\ pc' = [pc EXCEPT ![w] = "hung"]
  /\ UNCHANGED <<batch, items, now, workerId, claimedResume, txDirty, errKind, ctl, wd, objects, report, td, rt>>

\* One step of the invocation in slot w.
WorkerStep(w, errs) ==
  \/ TxRead(w)
  \/ TxQuery(w)
  \/ TxCommit(w)
  \/ AnalyzeOk(w)
  \/ AnalyzeThrows(w, errs)
  \/ OkBatch(w)
  \/ ErrRequeue(w)
  \/ ErrFail(w)
  \/ ErrBatch(w)
  \/ FinalRead(w)
  \/ FinalWrite(w)

ControlStep ==
  \/ \E u \in Users : \E a \in ControlActions : CtlDenied(u, a)
  \/ \E u \in Users : \E a \in ControlActions : CtlNoop(u, a)
  \/ \E u \in Users : \E a \in ControlActions : CtlFlip(u, a)
  \/ \E u \in Users : CtlCancelQuery(u)
  \/ CtlCancelCommit

WatchdogStep(coll) ==
  \/ WdQuery(coll)
  \/ WdUpdate
  \/ WdFailBatch
  \/ WdReturn

Create == \E files \in FileLists : CreateBatch(files)

\* The whole engine.
Next ==
  \/ Create
  \/ \E w \in Workers : WorkerStep(w, AnyFileFails)
  \/ ControlStep
  \/ WatchdogStep("rootResumes")
  \/ Tick

Spec == Init /\ [][Next]_vars

\* The engine with no watchdog sweep and an analyzer that can fail on one file
\* only: workers and controlBatch calls.
NextControl ==
  \/ Create
  \/ \E w \in Workers : WorkerStep(w, FirstFileFails)
  \/ ControlStep

SpecControl == Init /\ [][NextControl]_vars

\* The engine with no watchdog sweep, where the only controlBatch calls are the
\* owner's cancels.
NextCancel ==
  \/ Create
  \/ \E w \in Workers : WorkerStep(w, FirstFileFails)
  \/ CtlNoop("owner", "cancel")
  \/ CtlCancelQuery("owner")
  \/ CtlCancelCommit

SpecCancel == Init /\ [][NextCancel]_vars

\* The engine with no controlBatch call and a watchdog whose query sees the
\* batch's items: the worker started by createBatch, the invocations it
\* schedules, and the sweeps.
NextLease ==
  \/ Create
  \/ \E w \in Workers : WorkerStep(w, AnyFileFails)
  \/ WatchdogStep("batchResumes")
  \/ Tick

SpecLease == Init /\ [][NextLease]_vars

\* The engine with no controlBatch call, analyzer calls that may never return,
\* and the watchdog as written, its query on the root collection.
NextRoot ==
  \/ Create
  \/ \E w \in Workers : WorkerStep(w, AnyFileFails)
  \/ \E w \in Workers : AnalyzeHangs(w)
  \/ WdQuery("rootResumes")
  \/ WdReturn
  \/ Tick

SpecRoot == Init /\ [][NextRoot]_vars

\* The engine over a passing clock, with no watchdog sweep, where the only
\* controlBatch calls are the owner's resumes: each starts an invocation.
NextResume ==
  \/ Create
  \/ \E w \in Workers : WorkerStep(w, FirstFileFails)
  \/ CtlNoop("owner", "resume")
  \/ Tick

SpecResume == Init /\ [][NextResume]_vars

\* createBatch calls, those that throw included, and the workers.
NextCreate ==
  \/ Create
  \/ \E files \in FileLists : \E n \in 0..MaxFiles : CreateBatchFails(files, n)
  \/ \E w \in Workers : WorkerStep(w, FirstFileFails)

SpecCreate == Init /\ [][NextCreate]_vars

\* deleteAnalysisReport calls on a stored report, one after the other.
InitTeardown ==
  /\ batch = NoBatch
  /\ items = <<>>
  /\ now = 0
  /\ pc = [w \in Workers |-> "idle"]
  /\ workerId = [w \in Workers |-> Null]
  /\ claimedResume = [w \in Workers |-> Null]
  /\ txDirty = [w \in Workers |-> FALSE]
  /\ errKind = [w \in Workers |-> "none"]
  /\ ctl = CtlIdle
  /\ wd = WdIdle
  /\ objects = {}
  /\ report \in StoredReports
  /\ td = TdIdle
  /\ rt = RtIdle

NextTeardown ==
  \/ TdQueryDetails
  \/ TdCommitDetails
  \/ TdList
  \/ \E f \in Names : TdDeleteObject(f)
  \/ TdDeleteDoc
  \/ TdThrows

SpecTeardown == InitTeardown /\ [][NextTeardown]_vars

\* One call of the retry helper, fn returning or throwing as it will.
NextRetry ==
  \/ RetryStart
  \/ \E o \in FnOutcomes : RetryAttempt(o)
  \/ RetryWait
  \/ RetryThrowLast

SpecRetry == Init /\ [][NextRetry]_vars

\* Scheduling: an invocation that can take a step takes one (every await of
\* processSingleResume settles, the analyzer call included unless it hangs),
\* and so does a sweep of the watchdog that has started or can start.
Fairness ==
  /\ \A w \in Workers : WF_vars(WorkerStep(w, AnyFileFails))
  /\ WF_vars(WatchdogStep("batchResumes"))

\* SpecLease under fair scheduling: every analyzer call returns.
SpecLeaseFair == Init /\ [][NextLease]_vars /\ Fairness

\* SpecLease with analyzer calls that may never return, under fair scheduling.
NextHang ==
  \/ NextLease
  \/ \E w \in Workers : AnalyzeHangs(w)

SpecHang == Init /\ [][NextHang]_vars /\ Fairness

\* SpecCancel under fair scheduling: an invocation that can take a step takes
\* one, and a cancel whose transaction function has run commits or re-runs.
\* Nothing obliges the owner to call.
SpecCancelFair ==
  /\ Init /\ [][NextCancel]_vars
  /\ \A w \in Workers : WF_vars(WorkerStep(w, FirstFileFails))
  /\ WF_vars(CtlCancelCommit)

\* The engine with no watchdog sweep, where the only controlBatch calls are the
\* owner's pauses of a running batch and resumes of a paused one, under fair
\* scheduling of the invocations. Nothing obliges the owner to call.
NextPause ==
  \/ Create
  \/ \E w \in Workers : WorkerStep(w, FirstFileFails)
  \/ \E a \in {"pause", "resume"} : CtlFlip("owner", a)

SpecPause ==
  /\ Init /\ [][NextPause]_vars
  /\ \A w \in Workers : WF_vars(WorkerStep(w, FirstFileFails))

\* -------------------------------------------------------------- claims

\* C1: in every reachable state of a batch, completed + failed + cancelledCount
\* + skippedDuplicates is at most total.
CountersWithinTotal ==
  batch.status # "absent" => TotalProcessed(batch) <= batch.total

\* C2: no item is claimed by more than one worker: a claim (the commit of the
\* claim transaction that writes the item) takes an item that is pending.
ClaimOnlyPending ==
  [][\A w \in Workers :
       (TxCommit(w) /\ items' # items) => items[claimedResume[w]].status = "pending"]_vars

\* C3: an outcome write of a worker (complete, re-queue to pending, failed)
\* changes the item only if the item is running under that worker's workerId.
OutcomeWriteNeedsLease ==
  [][\A w \in Workers :
       ((AnalyzeOk(w) \/ ErrRequeue(w) \/ ErrFail(w)) /\ items' # items)
         => /\ items[claimedResume[w]].status = "running"
            /\ items[claimedResume[w]].workerId = workerId[w]]_vars

\* C4: once an item is complete, failed or cancelled, no step changes its status.
TerminalAbsorbing ==
  [][\A i \in DOMAIN items :
       items[i].status \in Terminal => items'[i].status = items[i].status]_vars

\* C5: a batch has status complete if and only if the counter sum equals total.
CompleteIffSumIsTotal ==
  batch.status # "absent" =>
    (batch.status = "complete" <=> TotalProcessed(batch) = batch.total)

\* C6: status complete is written to a batch at most once: a write of complete
\* finds a batch that is not complete yet.
CompleteWrittenOnce ==
  [][\A w \in Workers : FinalWrite(w) => batch.status # "complete"]_vars

LegalEdge(a, from, to) ==
  \/ a = "pause" /\ from = "running" /\ to = "paused"
  \/ a = "resume" /\ from = "paused" /\ to = "running"
  \/ a = "cancel" /\ from \in {"running", "paused"} /\ to = "cancelled"

\* C7: a step of controlBatch(action) either leaves the batch and every item
\* unchanged, or moves the batch status along pause: running -> paused,
\* resume: paused -> running, cancel: running | paused -> cancelled.
ControlTransitionsLegal ==
  [][\A u \in Users : \A a \in ControlActions :
       (\/ CtlDenied(u, a) \/ CtlNoop(u, a) \/ CtlFlip(u, a)
        \/ (a = "cancel" /\ (CtlCancelQuery(u) \/ CtlCancelCommit)))
         => \/ batch' = batch /\ items' = items
            \/ LegalEdge(a, batch.status, batch'.status)]_vars

\* C7 witness: the one controlBatch call made so far was a pause that took effect.
PauseTookEffect == batch.status = "paused" /\ ctl.calls = 1 /\ ctl.pc = "idle"

\* C8: once a batch is cancelled its status stays cancelled.
CancelledStaysCancelled ==
  [][batch.status = "cancelled" => batch'.status = "cancelled"]_vars

\* C9: for every item, workerId is non-null exactly when the item is running,
\* and so is startTime.
LeaseFieldsIffRunning ==
  \A i \in DOMAIN items :
    /\ items[i].workerId # Null <=> items[i].status = "running"
    /\ items[i].startTime # Null <=> items[i].status = "running"

\* C10: for every item, retryCount is at most maxRetries.
RetryCountWithinMax ==
  \A i \in DOMAIN items : items[i].retryCount <= items[i].maxRetries

\* C11: for every item, the number of its running -> pending transitions equals
\* its retryCount: both start at 0, and every step adds one to the retryCount of
\* exactly the items it moves from running to pending.
RetryCountCountsRequeues ==
  [][\A i \in DOMAIN items :
       items'[i].retryCount - items[i].retryCount =
         (IF items[i].status = "running" /\ items'[i].status = "pending" THEN 1 ELSE 0)]_vars

\* C12: the step that commits a cancel leaves every item that was pending at
\* that moment cancelled, and adds to cancelledCount exactly the number of
\* items it moved to cancelled.
CancelSweepsPending ==
  [][(CtlCancelCommit /\ batch.status # "cancelled" /\ batch'.status = "cancelled") =>
       /\ \A i \in DOMAIN items :
            items[i].status = "pending" => items'[i].status = "cancelled"
       /\ batch'.cancelledCount - batch.cancelledCount =
            Cardinality({i \in DOMAIN items :
                           items[i].status # "cancelled" /\ items'[i].status = "cancelled"})]_vars

\* C13: a controlBatch(cancel) on a batch that a cancel has already cancelled
\* changes neither the batch (status, counters) nor any item: two cancels end
\* in the state of one.
SecondCancelChangesNothing ==
  [][(/\ batch.status = "cancelled"
      /\ \/ CtlNoop("owner", "cancel")
         \/ CtlCancelQuery("owner")
         \/ CtlCancelCommit)
       => (batch' = batch /\ items' = items)]_vars

\* C13 witness: the owner has called cancel twice and the batch is cancelled.
CancelledTwice == batch.status = "cancelled" /\ ctl.calls = 2 /\ ctl.pc = "idle"

\* The first step of a call controlBatch(u, batchId, a).
ControlCall(u, a) ==
  /\ ctl.pc = "idle"
  /\ \/ CtlDenied(u, a) \/ CtlNoop(u, a) \/ CtlFlip(u, a)
     \/ (a = "cancel" /\ CtlCancelQuery(u))

\* C14: a controlBatch call by a user who is not the batch's, or on a batch
\* that does not exist, changes neither the batch nor an item and starts no
\* processSingleResume invocation.
DeniedChangesNothing ==
  [][\A u \in Users : \A a \in ControlActions :
       (ControlCall(u, a) /\ (batch.status = "absent" \/ batch.userId # u))
         => UNCHANGED <<batch, items, pc, workerId>>]_vars

\* C14 witness: a call was made on a batch that does not exist, and no batch
\* exists after it.
CalledOnMissingBatch == batch.status = "absent" /\ ctl.calls = 1

SweepTakesExpired ==
  [][\A i \in DOMAIN items :
       (/\ wd.pc = "idle" /\ wd'.pc # "idle"
        /\ Expired(items[i])
        /\ \E w \in Workers : pc[w] = "hung" /\ claimedResume[w] = i)
         => \E k \in 1..Len(wd'.snap) : wd'.snap[k].id = i]_vars

BatchEventuallyComplete ==
  (batch.status # "absent") ~> (batch.status = "complete")

\* C18 witness: a batch is complete with a failed item.
CompleteWithFailedItem ==
  /\ batch.status = "complete"
  /\ \E i \in DOMAIN items : items[i].status = "failed"

\* C19: the write with which a worker handles a permanent analyzer error leaves
\* the item failed, with the retryCount it had: the item is not re-queued.
PermanentErrorFailsDirectly ==
  [][\A w \in Workers :
       (errKind[w] = "permanent" /\ errKind'[w] = "none")
         => /\ items'[claimedResume[w]].status = "failed"
            /\ items'[claimedResume[w]].retryCount = items[claimedResume[w]].retryCount]_vars

\* C20: no item goes from pending to running more than maxRetries + 1 times.
ClaimsWithinAttempts ==
  \A i \in DOMAIN items : items[i].claims <= items[i].maxRetries + 1

\* C21: the retry ceiling of an item is its own maxRetries: a failed attempt or
\* an expired lease re-queues the item (running -> pending) only while its
\* retryCount is below its maxRetries, so with maxRetries = 0 never.
RequeueBelowOwnCeiling ==
  [][\A i \in DOMAIN items :
       (items[i].status = "running" /\ items'[i].status = "pending")
         => items[i].retryCount < items[i].maxRetries]_vars

\* C22: createBatch(files) creates one item per distinct content hash, in the
\* order of first occurrence, and leaves total equal to the number of items
\* created, skippedDuplicates equal to the number of files skipped, and
\* total + skippedDuplicates equal to the number of input files.
CreateCountsDistinct ==
  [][\A files \in FileLists :
       CreateBatch(files) =>
         /\ \A k \in DOMAIN items' : \A l \in DOMAIN items' :
              k < l => items'[k].fileHash # items'[l].fileHash
         /\ {items'[k].fileHash : k \in DOMAIN items'} = {files[j] : j \in DOMAIN files}
         /\ batch'.total = Len(items')
         /\ batch'.skippedDuplicates = Len(files) - Len(items')
         /\ batch'.total + batch'.skippedDuplicates = Len(files)]_vars

\* C23: a batch created with total = 0 eventually has status complete, with no
\* item ever claimed and skippedDuplicates equal to the number of input files
\* (none: only the empty list of files gives total = 0).
EmptyBatchCompletes ==
  (batch.status # "absent" /\ batch.total = 0)
    ~> (/\ batch.status = "complete"
        /\ batch.skippedDuplicates = 0
        /\ \A i \in DOMAIN items : items[i].claims = 0)

\* C24: claims are FIFO by lastUpdatedAt: no item is moved from pending to
\* running while another item of the batch is pending with a strictly older
\* lastUpdatedAt.
ClaimTakesOldestPending ==
  [][\A i \in DOMAIN items :
       (items[i].status = "pending" /\ items'[i].status = "running")
         => \A j \in PendingIds : items[j].lastUpdatedAt >= items[i].lastUpdatedAt]_vars

\* C25: no item moves from pending to running while the batch's status is not
\* running, also when a pause or a cancel commits between the read and the
\* commit of the worker's claim transaction.
ClaimOnlyInRunningBatch ==
  [][\A i \in DOMAIN items :
       (items[i].status = "pending" /\ items'[i].status = "running")
         => batch.status = "running"]_vars

\* C25 witness: a claim transaction that had chosen an item is run again, the
\* batch having been paused or cancelled since its read, and the item is
\* still pending.
ClaimTurnedBack ==
  \E w \in Workers :
    /\ pc[w] = "txRead"
    /\ claimedResume[w] # Null
    /\ items[claimedResume[w]].status = "pending"
    /\ batch.status \in {"paused", "cancelled"}

\* C26: in a cancelled batch a worker that holds an item is not interrupted: a
\* successful analyzer call is followed by the write of complete (with its
\* result) to the item and by completed + 1; the worker's final check then ends
\* the invocation without a re-invocation, no item is claimed, and the batch
\* does not go back to running.
CancelLetsWorkerFinish ==
  [][batch.status = "cancelled" =>
       /\ \A w \in Workers :
            /\ AnalyzeOk(w) => /\ items'[claimedResume[w]].status = "complete"
                               /\ items'[claimedResume[w]].result # "null"
            /\ OkBatch(w) => batch'.completed = batch.completed + 1
            /\ FinalRead(w) => pc'[w] = "idle"
       /\ \A i \in DOMAIN items :
            items[i].status = "pending" => items'[i].status # "running"
       /\ batch'.status # "running"]_vars

\* C26 witness: the batch is cancelled, its one item was claimed once and is
\* complete and counted, nothing was swept, and the invocation has ended
\* without writing complete to the batch.
WorkerStoppedAfterCancel ==
  /\ batch.status = "cancelled"
  /\ batch.total = 1 /\ batch.completed = 1 /\ batch.cancelledCount = 0
  /\ \A i \in DOMAIN items : items[i].status = "complete" /\ items[i].claims = 1
  /\ \A w \in Workers : pc[w] = "idle"

\* C27: a call of createBatch in which a step fails leaves no batch record and
\* no item record, schedules no worker, and leaves none of the objects it
\* uploaded in the store.
CreateFailureLeavesNothing ==
  [][\A files \in FileLists : \A n \in 0..MaxFiles :
       CreateBatchFails(files, n) =>
         /\ batch' = batch /\ items' = items
         /\ pc' = pc
         /\ objects' = objects]_vars

\* C28: every item with status complete has a result and no error.
CompleteHasResultNoError ==
  \A i \in DOMAIN items :
    items[i].status = "complete" => (items[i].result # "null" /\ items[i].error = "null")

\* C28 witness: an item is complete after an attempt that had left an error on it.
CompleteAfterRetry ==
  \E i \in DOMAIN items : items[i].status = "complete" /\ items[i].retryCount > 0

\* No item is running, or every running item has been running for at most
\* RUN_TIMEOUT_SEC.
SteadyState ==
  \A i \in DOMAIN items :
    items[i].status = "running" => now - items[i].startTime <= RUN_TIMEOUT_SEC

\* C29: a watchdog sweep that starts in a steady state goes straight to its
\* return, and neither its query nor its return changes an item or the batch:
\* after it the state is the one before it, whatever the number of such sweeps.
SteadySweepChangesNothing ==
  [][/\ (wd.pc = "idle" /\ wd'.pc # "idle" /\ SteadyState)
          => (wd' = WdDone /\ items' = items /\ batch' = batch)
     /\ (wd.pc = "done" /\ wd' # wd)
          => (wd' = WdIdle /\ items' = items /\ batch' = batch)]_vars

\* C29 witness: a sweep has run its query at time 0, when no lease can have
\* expired, with an item running, and is about to return.
SweptWhileFresh ==
  /\ wd.pc = "done"
  /\ now = 0
  /\ \E i \in DOMAIN items : items[i].status = "running"

Min2(a, b) == IF a <= b THEN a ELSE b

\* C31: retry calls fn at most five times; it returns at the first success;
\* an error that names neither 429 nor 503 is thrown at once; after the i-th
\* (0-based) transient failure, i < 4, it waits 2000 * 2^i ms; after the fifth
\* transient failure it throws that last error without a wait.
RetryContract ==
  /\ rt.calls <= 5
  /\ Len(rt.waits) <= 4
  /\ \A k \in 1..Len(rt.waits) : rt.waits[k] = 2000 * 2^(k - 1)
  /\ \A k \in 1..(Len(rt.caught) - 1) : rt.caught[k] \in {"err429", "err503"}
  /\ rt.pc = "loop" => (rt.calls = Len(rt.caught) /\ Len(rt.waits) = Min2(rt.calls, 4))
  /\ rt.pc = "returned" =>
       /\ rt.calls = Len(rt.caught) + 1
       /\ Len(rt.waits) = Len(rt.caught)
       /\ \A k \in 1..Len(rt.caught) : rt.caught[k] \in {"err429", "err503"}
  /\ rt.pc = "threw" =>
       /\ rt.calls = Len(rt.caught)
       /\ rt.thrown = rt.caught[rt.calls]
       /\ IF rt.thrown = "other"
          THEN Len(rt.waits) = rt.calls - 1
          ELSE rt.calls = 5 /\ Len(rt.waits) = 4

\* C31 witness: the fifth call of fn failed with a transient error and retry
\* has thrown it, after waits of 2, 4, 8 and 16 seconds.
RetryGaveUp ==
  /\ rt.pc = "threw" /\ rt.calls = 5
  /\ rt.thrown \in {"err429", "err503"}
  /\ rt.waits = <<2000, 4000, 8000, 16000>>

\* C32: a re-queue (running -> pending) sets the item's lastUpdatedAt to the
\* current time, and a re-queued item is claimed only after the items that
\* were pending before its re-queue: it is not moved to running while an item
\* is pending with a strictly older lastUpdatedAt.
RequeuedGoesToTail ==
  [][\A i \in DOMAIN items :
       /\ (items[i].status = "running" /\ items'[i].status = "pending")
            => items'[i].lastUpdatedAt = now
       /\ (items[i].status = "pending" /\ items'[i].status = "running"
           /\ items[i].retryCount > 0)
            => \A j \in PendingIds : items[j].lastUpdatedAt >= items[i].lastUpdatedAt]_vars

\* C33: an invocation that claimed no item, no item being pending, runs the
\* completion check and ends: it writes complete or returns, and schedules no
\* invocation, whatever the batch's status and counters.
IdleInvocationExits ==
  [][\A w \in Workers :
       (FinalRead(w) /\ claimedResume[w] = Null /\ PendingIds = {})
         => pc'[w] \in {"idle", "finalWrite"}]_vars

\* C34: a completion check that reads a running batch whose counters sum to
\* more than total does not go on to mark the batch complete: it flips the
\* batch to paused and the worker stops.
OvercountPauses ==
  [][\A w \in Workers :
       (FinalRead(w) /\ batch.status = "running" /\ TotalProcessed(batch) > batch.total)
         => /\ pc'[w] = "idle"
            /\ batch'.status = "paused"]_vars

\* C35: at most one item of the batch is running at any time, workers being
\* started only by createBatch, by controlBatch(resume) and by a worker's own
\* re-invocation.
RunningIds == {i \in DOMAIN items : items[i].status = "running"}

AtMostOneRunning == Cardinality(RunningIds) <= 1

\* C36: a batch that was paused and is running again after a resume reaches
\* status complete, unless it is paused again first; this includes the batch
\* whose last item finished during the pause, where the invocation started by
\* the resume finds no pending item.
Resumed == batch.status = "running" /\ ctl.calls > 0

ResumedCompletes == Resumed ~> batch.status \in {"complete", "paused"}

\* The invocation started by a resume has claimed nothing and is about to mark
\* the batch complete: every item was terminal before it started.
ResumedFindsNothing ==
  \E w \in Workers :
    /\ pc[w] = "finalWrite"
    /\ \A v \in Workers \ {w} : pc[v] = "idle"
    /\ ctl.calls >= 2
    /\ items # <<>>
    /\ \A i \in DOMAIN items :
         /\ items[i].status \in {"complete", "failed"}
         /\ items[i].workerId # workerId[w]

\* C37: in every quiescent state (no invocation, controlBatch call or watchdog
\* sweep is under way) the counters of the batch match its item records:
\* completed is the number of items with status complete, failed the number
\* with status failed, cancelledCount the number with status cancelled.
Quiescent ==
  /\ \A w \in Workers : pc[w] = "idle"
  /\ ctl.pc = "idle"
  /\ wd.pc \in {WdIdle.pc, WdDone.pc}

CountOf(s) == Cardinality({i \in DOMAIN items : items[i].status = s})

CountersMatchItems ==
  (Quiescent /\ batch.status # "absent")
    => /\ batch.completed = CountOf("complete")
       /\ batch.failed = CountOf("failed")
       /\ batch.cancelledCount = CountOf("cancelled")

\* C38: in a cancelled batch where no invocation and no controlBatch call is
\* under way, no item has status pending or running.
CancelledLeavesNoWork ==
  (batch.status = "cancelled" /\ ctl.pc = "idle" /\ \A w \in Workers : pc[w] = "idle")
    => \A i \in DOMAIN items : items[i].status \notin {"pending", "running"}

====
